---- MODULE Spec2Model ----
(***************************************************************************)
(* Model of the Ruby debug adapter of src/src/main.ts (MockDebugSession):  *)
(* the frontend request handlers, the backend process and socket           *)
(* callbacks registered by launchRequest, and the regular-expression       *)
(* driven reassembly of backend socket chunks into XML documents.          *)
(*                                                                         *)
(* Texts (socket chunks, source lines, backend commands) are TLA+ strings; *)
(* the regular expressions of the source are operators over them.  Every   *)
(* handler is one atomic action: node.js runs a callback to completion.    *)
(***************************************************************************)
EXTENDS Integers, Sequences, FiniteSets, TLC

VARIABLES
    debugSocketServer,  \* "null", or the socket's state: "created", "connecting", "connected",
                        \* "errored" (error emitted, close still to come), "closed"
    debugprocess,       \* "none" before spawn, then "running" / "exited" / "failed"
    sourceFile,         \* _sourceFile
    sourceLines,        \* _sourceLines
    breakpointId,       \* _breakpointId
    breakPoints,        \* _breakPoints: path -> sequence of breakpoints
    stackFrameLoaded,   \* the promise and its resolve function for frames documents
    variableLoaded,     \* the promise and its resolve function for variables documents
    buffer,             \* the reassembly buffer
    launchResponse,     \* request_seq of the launch response captured by the connect callback
    requests,           \* requests dispatched to the session so far
    responses,          \* sendResponse calls so far
    events,             \* sendEvent calls so far
    written,            \* debugSocketServer.write calls so far
    thrown,             \* the requests whose handler or then-callback raised a TypeError
    delivered,          \* parseFromString + resolve calls of the data handler, each with
                        \* the number of requests dispatched before it (seen)
    connects,           \* debugSocketServer.connect calls so far
    variableHandles,    \* _variableHandles: the values handles were created for, in order
    files,              \* the file system: path -> file text
    stderrIncoming,     \* stderr chunks the backend process has still to print
    incoming,           \* socket chunks the backend has still to deliver
    sent                \* the texts the backend writes to the socket, in order

vars == <<debugSocketServer, debugprocess, sourceFile, sourceLines, breakpointId,
          breakPoints, stackFrameLoaded, variableLoaded, buffer, launchResponse,
          requests, responses, events, written, thrown, delivered, connects,
          variableHandles,
          files, stderrIncoming, incoming, sent>>

-----------------------------------------------------------------------------
(* Bounds of the model.                                                     *)

\* requests the frontend sends in one run
MaxReq == 3
\* socket chunks one document text is split into
MaxChunks == 2
\* chunks of an interleaved event / document stream
MaxStream == 4
\* frames of one frames document
MaxFrames == 3
\* lines of a source file
MaxLines == 3
\* lines of one setBreakpoints request
MaxBpLines == 2

-----------------------------------------------------------------------------
(* String primitives used by the handlers.                                  *)

Min(S) == CHOOSE x \in S : \A y \in S : x <= y

\* character i of s (s[i] in JavaScript, 1-based here)
CharAt(s, i) == SubSeq(s, i, i)

\* /^p/.test(s) for a literal p; s.indexOf(p) == 0
StartsWith(s, p) == Len(s) >= Len(p) /\ SubSeq(s, 1, Len(p)) = p

\* s.startsWith(p, i - 1): p occurs in s at position i
OccursAt(s, p, i) == i >= 1 /\ i + Len(p) - 1 <= Len(s) /\ SubSeq(s, i, i + Len(p) - 1) = p

\* /p$/.test(s) for a literal p
EndsWith(s, p) == Len(s) >= Len(p) /\ SubSeq(s, Len(s) - Len(p) + 1, Len(s)) = p

\* s.indexOf(p, from): the first position >= from where p occurs, 0 when none
Find(s, p, from) ==
    LET hits == {i \in from..(Len(s) - Len(p) + 1) : SubSeq(s, i, i + Len(p) - 1) = p}
    IN  IF hits = {} THEN 0 ELSE Min(hits)

\* s.indexOf(p) >= 0
Contains(s, p) == Find(s, p, 1) # 0

\* the characters "." of a JavaScript regular expression does not match
LineTerminators == {"\n", "\r"}

\* .*? spans s: no line terminator in s
DotStar(s) == \A i \in 1..Len(s) : CharAt(s, i) \notin LineTerminators

\* /^<name .*?\/>$/.test(chunk)
SelfClosedTag(chunk, name) ==
    LET open == "<" \o name \o " "
    IN  /\ StartsWith(chunk, open)
        /\ EndsWith(chunk, "/>")
        /\ Len(chunk) >= Len(open) + 2
        /\ DotStar(SubSeq(chunk, Len(open) + 1, Len(chunk) - 2))

\* /^<name .*?>$/.test(chunk)
OpenTagWithAttrs(chunk, name) ==
    LET open == "<" \o name \o " "
    IN  /\ StartsWith(chunk, open)
        /\ EndsWith(chunk, ">")
        /\ Len(chunk) >= Len(open) + 1
        /\ DotStar(SubSeq(chunk, Len(open) + 1, Len(chunk) - 1))

WhiteSpace == {" ", "\t", "\n", "\r"}

RECURSIVE TrimLeft(_), TrimRight(_)
TrimLeft(s) ==
    IF Len(s) > 0 /\ CharAt(s, 1) \in WhiteSpace THEN TrimLeft(SubSeq(s, 2, Len(s))) ELSE s
TrimRight(s) ==
    IF Len(s) > 0 /\ CharAt(s, Len(s)) \in WhiteSpace
    THEN TrimRight(SubSeq(s, 1, Len(s) - 1)) ELSE s

\* String.prototype.trim
Trim(s) == TrimRight(TrimLeft(s))

\* s.split('\n')
RECURSIVE Split(_)
Split(s) ==
    LET nl == Find(s, "\n", 1)
    IN  IF nl = 0 THEN <<s>>
        ELSE <<SubSeq(s, 1, nl - 1)>> \o Split(SubSeq(s, nl + 1, Len(s)))

\* path.basename
RECURSIVE basename(_)
basename(p) ==
    LET slash == Find(p, "/", 1)
    IN  IF slash = 0 THEN p ELSE basename(SubSeq(p, slash + 1, Len(p)))

Digits == <<"0", "1", "2", "3", "4", "5", "6", "7", "8", "9">>

DigitValue(c) == (CHOOSE i \in 1..10 : Digits[i] = c) - 1

IsDigits(s) == Len(s) > 0 /\ \A i \in 1..Len(s) : \E d \in 1..10 : Digits[d] = CharAt(s, i)

RECURSIVE DecimalValue(_)
DecimalValue(s) ==
    IF Len(s) = 0 THEN 0
    ELSE 10 * DecimalValue(SubSeq(s, 1, Len(s) - 1)) + DigitValue(CharAt(s, Len(s)))

\* the value NaN stands for: no line index
NaN == -1

\* +s, the unary plus applied to an attribute value
ToNumber(s) == IF IsDigits(s) THEN DecimalValue(s) ELSE NaN

-----------------------------------------------------------------------------
(* DOMParser.parseFromString, for the documents of the backend protocol:    *)
(* elements with attributes, nested elements and text.                      *)

NoAttributes == <<>>

ElementNode(name, attrs, kids) ==
    [isElement |-> TRUE, nodeName |-> name, attributes |-> attrs, childNodes |-> kids]

TextNode == [isElement |-> FALSE, nodeName |-> "#text", attributes |-> NoAttributes,
             childNodes |-> <<>>]

\* the attributes of a start tag: key="value" pairs separated by white space
RECURSIVE ParseAttrs(_)
ParseAttrs(s) ==
    LET t == TrimLeft(s)
    IN  IF t = "" THEN [ok |-> TRUE, attrs |-> NoAttributes]
        ELSE LET eq == Find(t, "=\"", 1)
                 close == IF eq = 0 THEN 0 ELSE Find(t, "\"", eq + 2)
             IN  IF eq <= 1 \/ close = 0 THEN [ok |-> FALSE, attrs |-> NoAttributes]
                 ELSE LET rest == ParseAttrs(SubSeq(t, close + 1, Len(t)))
                      IN  [ok |-> rest.ok,
                           attrs |-> (SubSeq(t, 1, eq - 1) :> SubSeq(t, eq + 2, close - 1))
                                        @@ rest.attrs]

ParseFailed == [ok |-> FALSE, nodes |-> <<>>, next |-> 0]

RECURSIVE ParseNodes(_, _)
\* the sibling nodes that start at position p of s, up to an end tag or the end of s
ParseNodes(s, p) ==
    IF p > Len(s) \/ OccursAt(s, "</", p) THEN [ok |-> TRUE, nodes |-> <<>>, next |-> p]
    ELSE IF CharAt(s, p) # "<"
    THEN \* text up to the next tag
         LET lt == Find(s, "<", p)
             rest == ParseNodes(s, IF lt = 0 THEN Len(s) + 1 ELSE lt)
         IN  [ok |-> rest.ok, nodes |-> <<TextNode>> \o rest.nodes, next |-> rest.next]
    ELSE LET gt == Find(s, ">", p)
             selfClosed == gt > p + 1 /\ CharAt(s, gt - 1) = "/"
             inner == SubSeq(s, p + 1, IF selfClosed THEN gt - 2 ELSE gt - 1)
             sp == Find(inner, " ", 1)
             name == IF sp = 0 THEN inner ELSE SubSeq(inner, 1, sp - 1)
             attrs == IF sp = 0 THEN [ok |-> TRUE, attrs |-> NoAttributes]
                      ELSE ParseAttrs(SubSeq(inner, sp + 1, Len(inner)))
         IN  IF gt = 0 \/ name = "" \/ ~attrs.ok THEN ParseFailed
             ELSE IF selfClosed
             THEN LET rest == ParseNodes(s, gt + 1)
                  IN  [ok |-> rest.ok,
                       nodes |-> <<ElementNode(name, attrs.attrs, <<>>)>> \o rest.nodes,
                       next |-> rest.next]
             ELSE LET kids == ParseNodes(s, gt + 1)
                      endTag == "</" \o name \o ">"
                  IN  IF ~kids.ok \/ ~OccursAt(s, endTag, kids.next)
                      THEN ParseFailed
                      ELSE LET rest == ParseNodes(s, kids.next + Len(endTag))
                           IN  [ok |-> rest.ok,
                                nodes |-> <<ElementNode(name, attrs.attrs, kids.nodes)>>
                                             \o rest.nodes,
                                next |-> rest.next]

\* what the handlers see of a text that is not one well-formed element
MalformedDocument == [documentElement |-> ElementNode("parsererror", NoAttributes, <<>>)]

parseFromString(text) ==
    LET r == ParseNodes(text, 1)
    IN  IF r.ok /\ r.next > Len(text) /\ Len(r.nodes) = 1 /\ r.nodes[1].isElement
        THEN [documentElement |-> r.nodes[1]]
        ELSE MalformedDocument

-----------------------------------------------------------------------------
(* The session's bookkeeping: promises, responses, events.                  *)

THREAD_ID == 1

\* no then-callback is attached to the promise
NoWaiter == 0

\* the promise field before launchRequest or a request assigns it
UndefinedPromise == [state |-> "undefined", waiter |-> NoWaiter]

\* new Promise(resolve => ...): pending; waiter is the request whose then-callback is attached
NewPromise(waiter) == [state |-> "pending", waiter |-> waiter]

Request(command, args) == [seq |-> Len(requests) + 1, command |-> command, args |-> args]

Response(request_seq, command, body) ==
    [request_seq |-> request_seq, command |-> command, body |-> body]

NoBody == <<>>

\* a TypeError raised while request request_seq was handled ("handler") or while the
\* then-callback it attached ran ("callback")
Thrown(request_seq, where) == [request_seq |-> request_seq, where |-> where]

StoppedEvent(reason) == [event |-> "stopped", arg |-> reason, threadId |-> THREAD_ID]
\* new OutputEvent(output, category); the category defaults to "console"
OutputEvent(output, category) ==
    [event |-> "output", arg |-> category, threadId |-> 0, output |-> output]
InitializedEvent == [event |-> "initialized", arg |-> "", threadId |-> 0]
TerminatedEvent == [event |-> "terminated", arg |-> "", threadId |-> 0]

\* setDebuggerLinesStartAt1(true); the frontend's lines start at 1 unless it says otherwise
DebuggerLinesStartAt1 == TRUE
ClientLinesStartAt1 == TRUE

convertClientLineToDebugger(line) ==
    IF DebuggerLinesStartAt1
    THEN (IF ClientLinesStartAt1 THEN line ELSE line + 1)
    ELSE (IF ClientLinesStartAt1 THEN line - 1 ELSE line)

convertDebuggerLineToClient(line) ==
    IF DebuggerLinesStartAt1
    THEN (IF ClientLinesStartAt1 THEN line ELSE line - 1)
    ELSE (IF ClientLinesStartAt1 THEN line + 1 ELSE line)

\* readFileSync(path).toString().split('\n')
ReadLines(path) == Split(files[path])

-----------------------------------------------------------------------------
(* Stack-frame and variable translation: the then-callbacks.                *)

InternalScripts == {"ruby-debug-ide.rb", "rdebug-ide"}

StackFrame(id, name, source, line, column) ==
    [id |-> id, name |-> name, source |-> source, line |-> line, column |-> column]

\* the loop with `continue` in place of `break` at a backend-internal frame
RECURSIVE FramesLoopSkipping(_, _, _, _, _)
FramesLoopSkipping(childNodes, i, frames, srcFile, srcLines) ==
    IF i > Len(childNodes) THEN [threw |-> FALSE, frames |-> frames]
    ELSE LET frameNode == childNodes[i]
             attrs == frameNode.attributes
         IN  IF ~frameNode.isElement \/ "file" \notin DOMAIN attrs
             THEN [threw |-> TRUE, frames |-> frames]
             ELSE IF basename(attrs["file"]) \in InternalScripts
             THEN FramesLoopSkipping(childNodes, i + 1, frames, srcFile, srcLines)
             ELSE IF "line" \notin DOMAIN attrs
             THEN [threw |-> TRUE, frames |-> frames]
             ELSE LET line == convertDebuggerLineToClient(ToNumber(attrs["line"]))
                  IN  IF line \notin 1..Len(srcLines)
                      THEN [threw |-> TRUE, frames |-> frames]
                      ELSE FramesLoopSkipping(childNodes, i + 1,
                               Append(frames,
                                      StackFrame(i - 1, Trim(srcLines[line]),
                                                 basename(srcFile), line, 0)),
                               srcFile, srcLines)

\* the for loop of the frames callback from child i (1-based) on:
\* threw is TRUE when an attribute or source line read hits undefined
RECURSIVE FramesLoop(_, _, _, _, _)
FramesLoop(childNodes, i, frames, srcFile, srcLines) ==
    IF i > Len(childNodes) THEN [threw |-> FALSE, frames |-> frames]
    ELSE LET frameNode == childNodes[i]
             attrs == frameNode.attributes
         IN  IF ~frameNode.isElement \/ "file" \notin DOMAIN attrs
             THEN [threw |-> TRUE, frames |-> frames]
             ELSE IF basename(attrs["file"]) \in InternalScripts
             THEN [threw |-> FALSE, frames |-> frames]
             ELSE IF "line" \notin DOMAIN attrs
             THEN [threw |-> TRUE, frames |-> frames]
             ELSE LET line == convertDebuggerLineToClient(ToNumber(attrs["line"]))
                  IN  IF line \notin 1..Len(srcLines)
                      THEN [threw |-> TRUE, frames |-> frames]
                      ELSE FramesLoop(childNodes, i + 1,
                               Append(frames,
                                      StackFrame(i - 1, Trim(srcLines[line]),
                                                 basename(srcFile), line, 0)),
                               srcFile, srcLines)

\* the then-callback of stackTraceRequest: "return", "throw" or the stackFrames of the response
StackTraceThen(xml, srcFile, srcLines) ==
    IF xml.documentElement.nodeName # "frames" THEN [outcome |-> "return", frames |-> <<>>]
    ELSE LET r == FramesLoop(xml.documentElement.childNodes, 1, <<>>, srcFile, srcLines)
         IN  [outcome |-> IF r.threw THEN "throw" ELSE "respond", frames |-> r.frames]

RECURSIVE VariablesLoop(_, _, _, _)
VariablesLoop(childNodes, i, variables, variablesReference) ==
    IF i > Len(childNodes) THEN [threw |-> FALSE, variables |-> variables]
    ELSE LET varNode == childNodes[i]
             attrs == varNode.attributes
         IN  IF ~varNode.isElement \/ "name" \notin DOMAIN attrs \/ "value" \notin DOMAIN attrs
             THEN [threw |-> TRUE, variables |-> variables]
             ELSE VariablesLoop(childNodes, i + 1,
                      Append(variables, [name |-> attrs["name"], value |-> attrs["value"],
                                         variablesReference |-> variablesReference]),
                      variablesReference)

\* the then-callback of variablesRequest
VariablesThen(xml, variablesReference) ==
    LET r == VariablesLoop(xml.documentElement.childNodes, 1, <<>>, variablesReference)
    IN  [outcome |-> IF r.threw THEN "throw" ELSE "respond", variables |-> r.variables]

-----------------------------------------------------------------------------
(* The socket "data" callback.                                              *)

\* the callback with the buffering test ahead of the two event tests
DataBranchBufferFirst(chunk, buf) ==
    IF \/ (StartsWith(chunk, "<frames>") /\ ~EndsWith(chunk, "</frames>"))
       \/ (SelfClosedTag(chunk, "frame") /\ buf # "")
       \/ (StartsWith(chunk, "<variables>") /\ ~EndsWith(chunk, "</variables>"))
       \/ (SelfClosedTag(chunk, "variable") /\ buf # "")
       \/ (StartsWith(chunk, "<breakpoints>") /\ ~EndsWith(chunk, "</breakpoints>"))
       \/ (SelfClosedTag(chunk, "breakpoint") /\ buf # "")
    THEN "append"
    ELSE IF SelfClosedTag(chunk, "breakpoint") THEN "breakpoint"
    ELSE IF SelfClosedTag(chunk, "suspended") THEN "suspended"
    ELSE IF \/ (OpenTagWithAttrs(chunk, "variable") /\ ~EndsWith(chunk, "</variables>"))
            \/ EndsWith(chunk, "</variable>")
    THEN "append"
    ELSE IF \/ EndsWith(chunk, "</frames>")
            \/ EndsWith(chunk, "</variables>")
            \/ EndsWith(chunk, "</breakpoints>")
    THEN "complete"
    ELSE "ignore"

\* which return path of the callback a chunk takes, given the buffer
DataBranch(chunk, buf) ==
    IF SelfClosedTag(chunk, "breakpoint") THEN "breakpoint"
    ELSE IF SelfClosedTag(chunk, "suspended") THEN "suspended"
    ELSE IF \/ (StartsWith(chunk, "<frames>") /\ ~EndsWith(chunk, "</frames>"))
            \/ (SelfClosedTag(chunk, "frame") /\ buf # "")
            \/ (StartsWith(chunk, "<variables>") /\ ~EndsWith(chunk, "</variables>"))
            \/ (SelfClosedTag(chunk, "variable") /\ buf # "")
            \/ (StartsWith(chunk, "<breakpoints>") /\ ~EndsWith(chunk, "</breakpoints>"))
            \/ (SelfClosedTag(chunk, "breakpoint") /\ buf # "")
    THEN "append"
    ELSE IF \/ (OpenTagWithAttrs(chunk, "variable") /\ ~EndsWith(chunk, "</variables>"))
            \/ EndsWith(chunk, "</variable>")
    THEN "append"
    ELSE IF \/ EndsWith(chunk, "</frames>")
            \/ EndsWith(chunk, "</variables>")
            \/ EndsWith(chunk, "</breakpoints>")
    THEN "complete"
    ELSE "ignore"

\* a resolve function that runs the registered then-callback on every call, as if
\* a promise could be resolved more than once
ResolveFramesAgain(text) ==
    LET xml == parseFromString(text)
        waiter == stackFrameLoaded.waiter
        r == StackTraceThen(xml, sourceFile, sourceLines)
    IN  /\ delivered' = Append(delivered, [kind |-> "frames", text |-> text,
                                         seen |-> Len(requests)])
        /\ UNCHANGED variableLoaded
        /\ stackFrameLoaded' = [stackFrameLoaded EXCEPT !.state = "resolved"]
        /\ responses' = IF waiter # NoWaiter /\ r.outcome = "respond"
                        THEN Append(responses, Response(waiter, "stackTrace", r.frames))
                        ELSE responses
        /\ thrown' = IF waiter # NoWaiter /\ r.outcome = "throw"
                     THEN Append(thrown, Thrown(waiter, "callback")) ELSE thrown

\* stackFrameLoadedPromiseResolve(document), with the then-callback it runs
ResolveFrames(text) ==
    LET xml == parseFromString(text)
        waiter == stackFrameLoaded.waiter
        r == StackTraceThen(xml, sourceFile, sourceLines)
    IN  /\ delivered' = Append(delivered, [kind |-> "frames", text |-> text,
                                         seen |-> Len(requests)])
        /\ UNCHANGED variableLoaded
        /\ IF stackFrameLoaded.state = "pending"
           THEN /\ stackFrameLoaded' = [stackFrameLoaded EXCEPT !.state = "resolved"]
                /\ responses' = IF waiter # NoWaiter /\ r.outcome = "respond"
                                THEN Append(responses, Response(waiter, "stackTrace", r.frames))
                                ELSE responses
                /\ thrown' = IF waiter # NoWaiter /\ r.outcome = "throw"
                             THEN Append(thrown, Thrown(waiter, "callback")) ELSE thrown
           ELSE UNCHANGED <<stackFrameLoaded, responses, thrown>>

\* variableLoadedPromiseResolve(document), with the then-callback it runs
ResolveVariables(text) ==
    LET xml == parseFromString(text)
        waiter == variableLoaded.waiter
        r == VariablesThen(xml, requests[waiter].args.variablesReference)
    IN  /\ delivered' = Append(delivered, [kind |-> "variables", text |-> text,
                                         seen |-> Len(requests)])
        /\ UNCHANGED stackFrameLoaded
        /\ IF variableLoaded.state = "pending"
           THEN /\ variableLoaded' = [variableLoaded EXCEPT !.state = "resolved"]
                /\ responses' = IF waiter # NoWaiter /\ r.outcome = "respond"
                                THEN Append(responses, Response(waiter, "variables", r.variables))
                                ELSE responses
                /\ thrown' = IF waiter # NoWaiter /\ r.outcome = "throw"
                             THEN Append(thrown, Thrown(waiter, "callback")) ELSE thrown
           ELSE UNCHANGED <<variableLoaded, responses, thrown>>

\* debugSocketServer.on("data", ...) applied to one chunk
OnData(chunk) ==
    LET branch == DataBranch(chunk, buffer)
    IN  CASE branch = "breakpoint" ->
                /\ events' = Append(events, StoppedEvent("breakpoint"))
                /\ UNCHANGED <<buffer, delivered, stackFrameLoaded, variableLoaded,
                               responses, thrown>>
          [] branch = "suspended" ->
                /\ events' = Append(events, StoppedEvent("step"))
                /\ UNCHANGED <<buffer, delivered, stackFrameLoaded, variableLoaded,
                               responses, thrown>>
          [] branch = "append" ->
                /\ buffer' = buffer \o chunk
                /\ UNCHANGED <<events, delivered, stackFrameLoaded, variableLoaded,
                               responses, thrown>>
          [] branch = "complete" ->
                /\ buffer' = ""
                /\ UNCHANGED events
                /\ IF EndsWith(chunk, "</frames>") THEN ResolveFrames(buffer \o chunk)
                   ELSE IF EndsWith(chunk, "</variables>") THEN ResolveVariables(buffer \o chunk)
                   ELSE UNCHANGED <<delivered, stackFrameLoaded, variableLoaded,
                                    responses, thrown>>
          [] branch = "ignore" ->
                UNCHANGED <<events, buffer, delivered, stackFrameLoaded, variableLoaded,
                            responses, thrown>>

-----------------------------------------------------------------------------
(* The session after construction.                                          *)

InitSession ==
    /\ debugSocketServer = "null"
    /\ debugprocess = "none"
    /\ sourceFile = ""
    /\ sourceLines = <<>>
    /\ breakpointId = 1000
    /\ breakPoints = <<>>
    /\ stackFrameLoaded = UndefinedPromise
    /\ variableLoaded = UndefinedPromise
    /\ buffer = ""           \* assigned by launchRequest before any callback reads it
    /\ launchResponse = 0
    /\ requests = <<>>
    /\ responses = <<>>
    /\ events = <<>>
    /\ written = <<>>
    /\ thrown = <<>>
    /\ delivered = <<>>
    /\ connects = 0
    /\ variableHandles = <<>>

env == <<files, stderrIncoming, incoming, sent>>

-----------------------------------------------------------------------------
(* launchRequest and the callbacks it registers.                            *)

LaunchRequest(program, stopOnEntry) ==
    /\ debugprocess = "none"            \* the frontend launches a session once
    /\ requests' = Append(requests,
                          Request("launch", [program |-> program, stopOnEntry |-> stopOnEntry]))
    /\ sourceFile' = program
    /\ sourceLines' = ReadLines(program)
    /\ debugprocess' = "running"
    /\ stackFrameLoaded' = NewPromise(NoWaiter)
    /\ variableLoaded' = NewPromise(NoWaiter)
    /\ buffer' = ""
    /\ debugSocketServer' = "created"
    /\ launchResponse' = Len(requests) + 1
    /\ IF stopOnEntry
       THEN /\ responses' = Append(responses, Response(Len(requests) + 1, "launch", NoBody))
            /\ events' = Append(events, StoppedEvent("entry"))
       ELSE UNCHANGED <<responses, events>>
    /\ UNCHANGED <<breakpointId, breakPoints, written, thrown, delivered, connects,
                   variableHandles, env>>

\* debugprocess.stderr.on('data', ...)
StderrData ==
    /\ debugprocess = "running"
    /\ stderrIncoming # <<>>
    /\ LET data == Head(stderrIncoming)
       IN  /\ IF StartsWith(data, "Fast Debugger")
              THEN /\ connects' = connects + 1
                   /\ debugSocketServer' = IF debugSocketServer \in {"created", "closed"}
                                           THEN "connecting" ELSE debugSocketServer
              ELSE UNCHANGED <<connects, debugSocketServer>>
           /\ events' = Append(events, OutputEvent(data, "stderr"))
    /\ stderrIncoming' = Tail(stderrIncoming)
    /\ UNCHANGED <<debugprocess, sourceFile, sourceLines, breakpointId, breakPoints,
                   stackFrameLoaded, variableLoaded, buffer, launchResponse, requests,
                   responses, written, thrown, delivered, variableHandles, files,
                   incoming, sent>>

\* debugprocess.on('exit', ...)
ProcessExit ==
    /\ debugprocess = "running"
    /\ debugprocess' = "exited"
    /\ events' = Append(events, TerminatedEvent)
    /\ UNCHANGED <<debugSocketServer, sourceFile, sourceLines, breakpointId, breakPoints,
                   stackFrameLoaded, variableLoaded, buffer, launchResponse, requests,
                   responses, written, thrown, delivered, connects,
                   variableHandles, env>>

\* debugSocketServer.on('connect', ...)
SocketConnect ==
    /\ debugSocketServer = "connecting"
    /\ debugSocketServer' = "connected"
    /\ events' = Append(events, InitializedEvent)
    /\ responses' = Append(responses, Response(launchResponse, "launch", NoBody))
    /\ UNCHANGED <<debugprocess, sourceFile, sourceLines, breakpointId, breakPoints,
                   stackFrameLoaded, variableLoaded, buffer, launchResponse, requests,
                   written, thrown, delivered, connects,
                   variableHandles, env>>

\* debugSocketServer.on("data", ...) for the next chunk the backend delivers
SocketData ==
    /\ debugSocketServer = "connected"
    /\ incoming # <<>>
    /\ OnData(Head(incoming))
    /\ incoming' = Tail(incoming)
    /\ UNCHANGED <<debugSocketServer, debugprocess, sourceFile, sourceLines, breakpointId,
                   breakPoints, launchResponse, requests, written, connects,
                   variableHandles,
                   files, stderrIncoming, sent>>

\* the texts the socket callbacks put before the value they are called with
ClosedMessage == "Debugger client closed, "
ErrorMessage == "Debugger client error, "
TimeoutMessage == "Debugger client timedout, "

\* debugSocketServer.on("close", ...)
SocketClose ==
    /\ debugSocketServer \in {"connecting", "connected", "errored"}
    /\ debugSocketServer' = "closed"
    /\ events' = events \o <<OutputEvent(ClosedMessage, "console"), TerminatedEvent>>
    /\ UNCHANGED <<debugprocess, sourceFile, sourceLines, breakpointId, breakPoints,
                   stackFrameLoaded, variableLoaded, buffer, launchResponse, requests,
                   responses, written, thrown, delivered, connects,
                   variableHandles, env>>

\* the OutputEvents of a sequence with this output text
OutputsOf(evs, output) ==
    {i \in 1..Len(evs) : evs[i].event = "output" /\ evs[i].output = output}

\* the error handler that would also end the session
SocketErrorTerminates ==
    /\ debugSocketServer \in {"connecting", "connected"}
    /\ debugSocketServer' = "errored"
    /\ events' = events \o <<OutputEvent(ErrorMessage, "console"), TerminatedEvent>>
    /\ UNCHANGED <<debugprocess, sourceFile, sourceLines, breakpointId, breakPoints,
                   stackFrameLoaded, variableLoaded, buffer, launchResponse, requests,
                   responses, written, thrown, delivered, connects,
                   variableHandles, env>>

\* debugSocketServer.on("error", ...): net emits 'close' after it
SocketError ==
    /\ debugSocketServer \in {"connecting", "connected"}
    /\ debugSocketServer' = "errored"
    /\ events' = Append(events, OutputEvent(ErrorMessage, "console"))
    /\ UNCHANGED <<debugprocess, sourceFile, sourceLines, breakpointId, breakPoints,
                   stackFrameLoaded, variableLoaded, buffer, launchResponse, requests,
                   responses, written, thrown, delivered, connects,
                   variableHandles, env>>

\* debugSocketServer.on("timeout", ...), at most bound times
SocketTimeout(bound) ==
    /\ debugSocketServer \in {"connecting", "connected"}
    /\ Cardinality(OutputsOf(events, TimeoutMessage \o "\n")) < bound
    /\ events' = Append(events, OutputEvent(TimeoutMessage \o "\n", "stderr"))
    /\ UNCHANGED <<debugSocketServer, debugprocess, sourceFile, sourceLines, breakpointId,
                   breakPoints, stackFrameLoaded, variableLoaded, buffer, launchResponse,
                   requests, responses, written, thrown, delivered, connects,
                   variableHandles, env>>

\* error.message of a failed spawn
SpawnErrorMessage == "spawn rdebug-ide ENOENT"

\* debugprocess.on('error', ...)
ProcessError ==
    /\ debugprocess = "running"
    /\ debugprocess' = "failed"
    /\ events' = Append(events, OutputEvent(SpawnErrorMessage, "stderr"))
    /\ UNCHANGED <<debugSocketServer, sourceFile, sourceLines, breakpointId, breakPoints,
                   stackFrameLoaded, variableLoaded, buffer, launchResponse, requests,
                   responses, written, thrown, delivered, connects,
                   variableHandles, env>>

\* debugprocess.stdout.on('data', ...) for a chunk of the program's output, at most bound times
StdoutData(data, bound) ==
    /\ debugprocess = "running"
    /\ Cardinality(OutputsOf(events, data)) < bound
    /\ events' = Append(events, OutputEvent(data, "stdout"))
    /\ UNCHANGED <<debugSocketServer, debugprocess, sourceFile, sourceLines, breakpointId,
                   breakPoints, stackFrameLoaded, variableLoaded, buffer, launchResponse,
                   requests, responses, written, thrown, delivered, connects,
                   variableHandles, env>>

-----------------------------------------------------------------------------
(* Requests that write a backend command.                                   *)

\* debugSocketServer.write(command) inside the handler of request seq:
\* a TypeError while the field is still null, a write call otherwise
SocketWrite(seq, command) ==
    IF debugSocketServer = "null"
    THEN thrown' = Append(thrown, Thrown(seq, "handler")) /\ UNCHANGED written
    ELSE written' = Append(written, command) /\ UNCHANGED thrown

StackTraceRequestWriteFirst ==
    /\ requests' = Append(requests, Request("stackTrace", <<>>))
    /\ SocketWrite(Len(requests) + 1, "where\n")
    /\ stackFrameLoaded' = IF debugSocketServer = "null" THEN stackFrameLoaded
                           ELSE NewPromise(Len(requests) + 1)
    /\ UNCHANGED <<debugSocketServer, debugprocess, sourceFile, sourceLines, breakpointId,
                   breakPoints, variableLoaded, buffer, launchResponse, responses, events,
                   delivered, connects,
                   variableHandles, env>>

StackTraceRequest ==
    /\ requests' = Append(requests, Request("stackTrace", <<>>))
    /\ stackFrameLoaded' = NewPromise(Len(requests) + 1)
    /\ SocketWrite(Len(requests) + 1, "where\n")
    /\ UNCHANGED <<debugSocketServer, debugprocess, sourceFile, sourceLines, breakpointId,
                   breakPoints, variableLoaded, buffer, launchResponse, responses, events,
                   delivered, connects,
                   variableHandles, env>>

VariablesRequest(variablesReference) ==
    /\ requests' = Append(requests,
                          Request("variables", [variablesReference |-> variablesReference]))
    /\ variableLoaded' = NewPromise(Len(requests) + 1)
    /\ SocketWrite(Len(requests) + 1, "var local\n")
    /\ UNCHANGED <<debugSocketServer, debugprocess, sourceFile, sourceLines, breakpointId,
                   breakPoints, stackFrameLoaded, buffer, launchResponse, responses, events,
                   delivered, connects,
                   variableHandles, env>>

DisconnectRequest ==
    /\ requests' = Append(requests, Request("disconnect", <<>>))
    /\ SocketWrite(Len(requests) + 1, "quit\n")
    /\ responses' = IF debugSocketServer = "null" THEN responses
                    ELSE Append(responses, Response(Len(requests) + 1, "disconnect", NoBody))
    /\ UNCHANGED <<debugSocketServer, debugprocess, sourceFile, sourceLines, breakpointId,
                   breakPoints, stackFrameLoaded, variableLoaded, buffer, launchResponse,
                   events, delivered, connects,
                   variableHandles, env>>

-----------------------------------------------------------------------------
(* Requests answered by their handler.                                      *)

\* initializeRequest
InitializeRequest ==
    /\ requests' = Append(requests, Request("initialize", <<>>))
    /\ responses' = Append(responses,
                           Response(Len(requests) + 1, "initialize",
                                    [supportsConfigurationDoneRequest |-> TRUE]))
    /\ UNCHANGED <<written, thrown, variableHandles>>
    /\ UNCHANGED <<debugSocketServer, debugprocess, sourceFile, sourceLines, breakpointId,
                   breakPoints, stackFrameLoaded, variableLoaded, buffer, launchResponse,
                   events, delivered, connects, env>>

\* configurationDoneRequest: the handler returns after the write
ConfigurationDoneRequest ==
    /\ requests' = Append(requests, Request("configurationDone", <<>>))
    /\ SocketWrite(Len(requests) + 1, "start\n")
    /\ UNCHANGED <<responses, variableHandles>>
    /\ UNCHANGED <<debugSocketServer, debugprocess, sourceFile, sourceLines, breakpointId,
                   breakPoints, stackFrameLoaded, variableLoaded, buffer, launchResponse,
                   events, delivered, connects, env>>

\* threadsRequest
ThreadsRequest ==
    /\ requests' = Append(requests, Request("threads", <<>>))
    /\ responses' = Append(responses,
                           Response(Len(requests) + 1, "threads",
                                    <<[id |-> THREAD_ID, name |-> "thread 1"]>>))
    /\ UNCHANGED <<written, thrown, variableHandles>>
    /\ UNCHANGED <<debugSocketServer, debugprocess, sourceFile, sourceLines, breakpointId,
                   breakPoints, stackFrameLoaded, variableLoaded, buffer, launchResponse,
                   events, delivered, connects, env>>

\* the first handle a Handles object gives out
START_HANDLE == 1000

\* scopesRequest: one scope, Local, with a new handle for "local_" + frameId
ScopesRequest(frameId) ==
    /\ requests' = Append(requests, Request("scopes", [frameId |-> frameId]))
    /\ variableHandles' = Append(variableHandles, "local_" \o ToString(frameId))
    /\ responses' = Append(responses,
                           Response(Len(requests) + 1, "scopes",
                                    <<[name |-> "Local",
                                       variablesReference |-> START_HANDLE + Len(variableHandles),
                                       expensive |-> FALSE]>>))
    /\ UNCHANGED <<written, thrown>>
    /\ UNCHANGED <<debugSocketServer, debugprocess, sourceFile, sourceLines, breakpointId,
                   breakPoints, stackFrameLoaded, variableLoaded, buffer, launchResponse,
                   events, delivered, connects, env>>

\* continueRequest, nextRequest, stepInRequest: sendResponse, then the write of a command
ResumeRequest(request, command) ==
    /\ requests' = Append(requests, Request(request, <<>>))
    /\ responses' = Append(responses, Response(Len(requests) + 1, request, NoBody))
    /\ SocketWrite(Len(requests) + 1, command)
    /\ UNCHANGED variableHandles
    /\ UNCHANGED <<debugSocketServer, debugprocess, sourceFile, sourceLines, breakpointId,
                   breakPoints, stackFrameLoaded, variableLoaded, buffer, launchResponse,
                   events, delivered, connects, env>>

ContinueRequest == ResumeRequest("continue", "c\n")

NextRequest == ResumeRequest("next", "next\n")

StepInRequest == ResumeRequest("stepIn", "step\n")

\* stepOutRequest: the response and no command
StepOutRequest ==
    /\ requests' = Append(requests, Request("stepOut", <<>>))
    /\ responses' = Append(responses, Response(Len(requests) + 1, "stepOut", NoBody))
    /\ UNCHANGED <<written, thrown, variableHandles>>
    /\ UNCHANGED <<debugSocketServer, debugprocess, sourceFile, sourceLines, breakpointId,
                   breakPoints, stackFrameLoaded, variableLoaded, buffer, launchResponse,
                   events, delivered, connects, env>>

\* evaluateRequest
EvaluateRequest(expression) ==
    /\ requests' = Append(requests, Request("evaluate", [expression |-> expression]))
    /\ responses' = Append(responses,
                           Response(Len(requests) + 1, "evaluate",
                                    [result |-> "evaluate(" \o expression \o ")",
                                     variablesReference |-> 0]))
    /\ UNCHANGED <<written, thrown, variableHandles>>
    /\ UNCHANGED <<debugSocketServer, debugprocess, sourceFile, sourceLines, breakpointId,
                   breakPoints, stackFrameLoaded, variableLoaded, buffer, launchResponse,
                   events, delivered, connects, env>>

-----------------------------------------------------------------------------
(* setBreakPointsRequest.                                                   *)

Breakpoint(verified, line, id) == [verified |-> verified, line |-> line, id |-> id]

\* the verification of debugger line l against the file's lines, checking
\* the text of the line the breakpoint ends up on
VerifyLineAdjusted(lines, l) ==
    IF l < Len(lines)
    THEN IF l < 1 THEN [threw |-> TRUE, l |-> l, verified |-> FALSE]
         ELSE LET line == Trim(lines[l])
                  down == IF line = "" \/ StartsWith(line, "+") THEN l + 1 ELSE l
                  moved == IF StartsWith(line, "-") THEN down - 1 ELSE down
                  landed == IF moved \in 1..Len(lines) THEN Trim(lines[moved]) ELSE ""
              IN  [threw |-> FALSE, l |-> moved, verified |-> ~Contains(landed, "lazy")]
    ELSE [threw |-> FALSE, l |-> l, verified |-> FALSE]

\* the verification of debugger line l against the file's lines:
\* threw when lines[l-1] is undefined and .trim() raises a TypeError
VerifyLine(lines, l) ==
    IF l < Len(lines)
    THEN IF l < 1 THEN [threw |-> TRUE, l |-> l, verified |-> FALSE]
         ELSE LET line == Trim(lines[l])
                  down == IF line = "" \/ StartsWith(line, "+") THEN l + 1 ELSE l
                  moved == IF StartsWith(line, "-") THEN down - 1 ELSE down
              IN  [threw |-> FALSE, l |-> moved, verified |-> ~Contains(line, "lazy")]
    ELSE [threw |-> FALSE, l |-> l, verified |-> FALSE]

BreakCommand(line) == "break test.rb:" \o ToString(line) \o "\n"

\* an identifier counter that stands still
NextBreakpointIdReused(id) == id

\* this._breakpointId++: the counter after a breakpoint took identifier id
NextBreakpointId(id) == id + 1

\* the for loop over clientLines from index i (1-based) on; socketNull makes write throw
RECURSIVE BreakpointsLoop(_, _, _, _, _, _, _)
BreakpointsLoop(lines, clientLines, i, id, breakpoints, commands, socketNull) ==
    IF i > Len(clientLines)
    THEN [threw |-> FALSE, id |-> id, breakpoints |-> breakpoints, commands |-> commands]
    ELSE LET v == VerifyLine(lines, convertClientLineToDebugger(clientLines[i]))
             bp == Breakpoint(v.verified, convertDebuggerLineToClient(v.l), id)
         IN  IF v.threw
             THEN [threw |-> TRUE, id |-> id, breakpoints |-> breakpoints,
                   commands |-> commands]
             ELSE IF socketNull
             THEN [threw |-> TRUE, id |-> NextBreakpointId(id), breakpoints |-> breakpoints,
                   commands |-> commands]
             ELSE BreakpointsLoop(lines, clientLines, i + 1, NextBreakpointId(id),
                                  Append(breakpoints, bp),
                                  Append(commands, BreakCommand(bp.line)), socketNull)

\* a store that adds the new breakpoints to the path's old ones
StoreBreakpointsMerged(store, path, breakpoints) ==
    [p \in DOMAIN store \cup {path} |->
        IF p = path
        THEN (IF p \in DOMAIN store THEN store[p] ELSE <<>>) \o breakpoints
        ELSE store[p]]

\* this._breakPoints[path] = breakpoints
StoreBreakpoints(store, path, breakpoints) ==
    [p \in DOMAIN store \cup {path} |-> IF p = path THEN breakpoints ELSE store[p]]

SetBreakPointsRequest(path, clientLines) ==
    LET seq == Len(requests) + 1
        r == BreakpointsLoop(ReadLines(path), clientLines, 1, breakpointId, <<>>, <<>>,
                             debugSocketServer = "null")
    IN  /\ requests' = Append(requests,
                              Request("setBreakpoints", [path |-> path, lines |-> clientLines]))
        /\ breakpointId' = r.id
        /\ written' = written \o r.commands
        /\ IF r.threw
           THEN /\ thrown' = Append(thrown, Thrown(seq, "handler"))
                /\ UNCHANGED <<breakPoints, responses>>
           ELSE /\ breakPoints' = StoreBreakpoints(breakPoints, path, r.breakpoints)
                /\ responses' = Append(responses, Response(seq, "setBreakpoints", r.breakpoints))
                /\ UNCHANGED thrown
        /\ UNCHANGED <<debugSocketServer, debugprocess, sourceFile, sourceLines,
                       stackFrameLoaded, variableLoaded, buffer, launchResponse, events,
                       delivered, connects,
                   variableHandles, env>>

-----------------------------------------------------------------------------
(* The environment: files, the backend's stderr lines and socket texts.     *)

Program == "/w/user.rb"
OtherPath == "/w/lib.rb"
Paths == {Program, OtherPath}

ReadyLine == "Fast Debugger (ruby-debug-ide) listens on 127.0.0.1:1234"
OtherLine == "warning: already initialized"

FrameTag(file, line) ==
    "<frame file=\"" \o file \o "\" line=\"" \o ToString(line) \o "\"/>"

RECURSIVE Concat(_)
Concat(texts) == IF texts = <<>> THEN "" ELSE Head(texts) \o Concat(Tail(texts))

\* the frames document for a sequence of [file, line] records
FramesDoc(frames) ==
    "<frames>" \o Concat([i \in 1..Len(frames) |-> FrameTag(frames[i].file, frames[i].line)])
               \o "</frames>"

VariableTag(name, value) ==
    "<variable name=\"" \o name \o "\" value=\"" \o value \o "\"/>"

\* the variables document for a sequence of [name, value] records
VariablesDoc(variables) ==
    "<variables>"
        \o Concat([i \in 1..Len(variables) |->
                      VariableTag(variables[i].name, variables[i].value)])
        \o "</variables>"

TwoLineFile == "a = 1\n  b = a + 1"

SampleFrames == FramesDoc(<<[file |-> Program, line |-> 2], [file |-> Program, line |-> 1]>>)
SampleVariables == VariablesDoc(<<[name |-> "a", value |-> "1"]>>)

-----------------------------------------------------------------------------
(* The session with its frontend and backend: requests, process and socket  *)
(* callbacks in any order; the backend sends whole documents.               *)

Init ==
    /\ InitSession
    /\ files = [p \in Paths |-> TwoLineFile]
    /\ stderrIncoming \in {<<ReadyLine>>, <<OtherLine, ReadyLine>>}
    /\ sent \in {<<SampleFrames>>, <<SampleVariables>>, <<SampleFrames, SampleVariables>>,
                <<SampleFrames, SampleFrames>>}
    /\ incoming = sent

\* the frontend sends at most bound requests
FrontendSends(bound) == Len(requests) < bound

Next ==
    \/ FrontendSends(MaxReq) /\ \E stopOnEntry \in BOOLEAN : LaunchRequest(Program, stopOnEntry)
    \/ StderrData
    \/ ProcessExit
    \/ SocketConnect
    \/ SocketData
    \/ SocketClose
    \/ FrontendSends(MaxReq) /\ StackTraceRequest
    \/ FrontendSends(MaxReq) /\ \E variablesReference \in {1001} :
                                   VariablesRequest(variablesReference)
    \/ FrontendSends(MaxReq) /\ DisconnectRequest

Spec == Init /\ [][Next]_vars

-----------------------------------------------------------------------------
(* Breakpoint verification: one setBreakpoints request, sent after the      *)
(* initialized event, against source files of every shape.                  *)

\* the sequences over S of length lo..hi
SeqsOf(S, lo, hi) == UNION {[1..k -> S] : k \in lo..hi}

RECURSIVE Join(_)
\* lines.join('\n')
Join(lines) ==
    IF Len(lines) = 1 THEN lines[1] ELSE lines[1] \o "\n" \o Join(Tail(lines))

LineTexts == {"a", "", "  +b", "-c", "lazy = 1"}

ExampleSource == Join(<<"a", "", "+b", "-c", "lazy_var = 1">>)
ExampleLines == <<2, 3, 4, 5>>

SourceTexts == {Join(ls) : ls \in SeqsOf(LineTexts, 1, MaxLines)} \cup {ExampleSource}

RequestedLines == SeqsOf(0..(MaxLines + 1), 0, MaxBpLines) \cup {ExampleLines}

SetBpRequests == {i \in 1..Len(requests) : requests[i].command = "setBreakpoints"}

InitBreakpointLines ==
    /\ InitSession
    /\ \E text \in SourceTexts : files = [p \in Paths |-> IF p = Program THEN text ELSE TwoLineFile]
    /\ stderrIncoming = <<ReadyLine>>
    /\ sent = <<>>
    /\ incoming = <<>>

NextBreakpointLines ==
    \/ LaunchRequest(Program, FALSE)
    \/ StderrData
    \/ SocketConnect
    \/ /\ debugSocketServer = "connected"
       /\ SetBpRequests = {}
       /\ \E clientLines \in RequestedLines : SetBreakPointsRequest(Program, clientLines)

SpecBreakpointLines == InitBreakpointLines /\ [][NextBreakpointLines]_vars

-----------------------------------------------------------------------------
(* Breakpoint sets: several setBreakpoints requests for two paths, at any   *)
(* time of the session.                                                     *)

\* setBreakpoints requests of one run
MaxBpReq == 3
\* the line lists of a request: none, a line of the file, a line below the first,
\* a line of the file with a line past the last
SetLines == {<<>>, <<1>>, <<0>>, <<1, 3>>}

InitBreakpointSets ==
    /\ InitSession
    /\ files = [p \in Paths |-> TwoLineFile]
    /\ stderrIncoming = <<ReadyLine>>
    /\ sent = <<>>
    /\ incoming = <<>>

NextBreakpointSets ==
    \/ LaunchRequest(Program, FALSE)
    \/ StderrData
    \/ SocketConnect
    \/ /\ Cardinality(SetBpRequests) < MaxBpReq
       /\ \E path \in Paths, clientLines \in SetLines : SetBreakPointsRequest(path, clientLines)

SpecBreakpointSets == InitBreakpointSets /\ [][NextBreakpointSets]_vars

-----------------------------------------------------------------------------
(* Properties of breakpoint verification.                                   *)

Max(S) == CHOOSE x \in S : \A y \in S : x >= y

SetBpResponses == {k \in 1..Len(responses) : responses[k].command = "setBreakpoints"}

\* the request a response answers
RequestOf(k) == requests[responses[k].request_seq]

\* the lines of the file a setBreakpoints response is about
LinesOf(k) == ReadLines(RequestOf(k).args.path)

\* the text of line l of lines, "" outside the file
LineText(lines, l) == IF l \in 1..Len(lines) THEN Trim(lines[l]) ELSE ""

\* the requests whose handler threw
ThrownInHandler == {thrown[j].request_seq : j \in {j \in 1..Len(thrown) : thrown[j].where = "handler"}}

\* the breakpoint returned for line index i of the request answered by response k
\* is what the spec's rule gives for requested line L
AdjustedAsSpecified(k, i) ==
    LET L == RequestOf(k).args.lines[i]
        text == LineText(LinesOf(k), L)
        expected == IF text = "" \/ StartsWith(text, "+") THEN L + 1
                    ELSE IF StartsWith(text, "-") THEN L - 1
                    ELSE L
    IN  responses[k].body[i].line = expected

\* C5: every requested line L with 1 <= L <= N comes back as L+1 when the trimmed
\* line is empty or starts with '+', as L-1 when it starts with '-', as L otherwise;
\* the example source answers 2,3,4,5 with 3,4,3,5, only the last unverified.
C5_AdjustedLineInBounds ==
    \A k \in SetBpResponses :
        /\ \A i \in 1..Len(RequestOf(k).args.lines) :
              RequestOf(k).args.lines[i] \in 1..Len(LinesOf(k)) => AdjustedAsSpecified(k, i)
        /\ (files[RequestOf(k).args.path] = ExampleSource /\ RequestOf(k).args.lines = ExampleLines)
              => /\ [i \in 1..4 |-> responses[k].body[i].line] = <<3, 4, 3, 5>>
                 /\ [i \in 1..4 |-> responses[k].body[i].verified] = <<TRUE, TRUE, TRUE, FALSE>>

\* C6 as stated, for the requested lines below the last one: verified if and only if
\* the trimmed text of the adjusted line does not contain "lazy".
C6_VerifiedByAdjustedLine ==
    \A k \in SetBpResponses :
        \A i \in 1..Len(RequestOf(k).args.lines) :
            LET L == RequestOf(k).args.lines[i]
                bp == responses[k].body[i]
            IN  (1 <= L /\ L < Len(LinesOf(k)))
                    => (bp.verified <=> ~Contains(LineText(LinesOf(k), bp.line), "lazy"))

\* C6 amended: a returned breakpoint is verified if and only if its requested line L
\* passes the handler's bound test (L < number of lines) and the trimmed text of
\* line L itself, before any adjustment, does not contain "lazy".
C6_VerifiedByRequestedLine ==
    \A k \in SetBpResponses :
        \A i \in 1..Len(RequestOf(k).args.lines) :
            LET L == RequestOf(k).args.lines[i]
                bp == responses[k].body[i]
            IN  bp.verified <=> (L < Len(LinesOf(k)) /\ ~Contains(LineText(LinesOf(k), L), "lazy"))

\* a breakpoint pushed from an empty line onto a "lazy" line came back verified, and one
\* requested on that "lazy" line itself came back at the same line, unverified
C6_Witness ==
    \E k \in SetBpResponses :
        /\ Len(RequestOf(k).args.lines) = 2
        /\ LET lines == LinesOf(k)
               L1 == RequestOf(k).args.lines[1]
               L2 == RequestOf(k).args.lines[2]
               b1 == responses[k].body[1]
               b2 == responses[k].body[2]
           IN  /\ L1 \in 1..(Len(lines) - 1) /\ L2 \in 1..(Len(lines) - 1)
               /\ LineText(lines, L1) = "" /\ b1.line = L1 + 1
               /\ Contains(LineText(lines, b1.line), "lazy") /\ b1.verified
               /\ L2 = L1 + 1 /\ b2.line = L2 /\ ~b2.verified

\* C7: a setBreakpoints request is answered, and each of its lines outside the file
\* (below 1 or above the number of lines) comes back unverified, unadjusted, with an id.
C7_OutOfBoundsAccepted ==
    \A r \in SetBpRequests :
        LET lines == requests[r].args.lines
            N == Len(ReadLines(requests[r].args.path))
        IN  (\E i \in 1..Len(lines) : lines[i] < 1 \/ lines[i] > N)
                => \E k \in SetBpResponses :
                      /\ responses[k].request_seq = r
                      /\ \A i \in 1..Len(lines) :
                            (lines[i] < 1 \/ lines[i] > N)
                                => /\ ~responses[k].body[i].verified
                                   /\ responses[k].body[i].line = lines[i]
                                   /\ responses[k].body[i].id >= 1000

\* the latest setBreakpoints response for a path, 0 when there is none
LastSetFor(path) ==
    LET ks == {k \in SetBpResponses : RequestOf(k).args.path = path}
    IN  IF ks = {} THEN 0 ELSE Max(ks)

\* C8: the stored set of every path is the set returned by the latest answered
\* setBreakpoints request for that path, the empty set when that request had no lines;
\* a path no request was answered for has no stored set.  (A request that throws
\* stores nothing and is not answered.)
C8_StoredSetIsLatestRequest ==
    \A path \in Paths :
        IF LastSetFor(path) = 0 THEN path \notin DOMAIN breakPoints
        ELSE /\ path \in DOMAIN breakPoints
             /\ breakPoints[path] = responses[LastSetFor(path)].body
             /\ Len(breakPoints[path]) = Len(RequestOf(LastSetFor(path)).args.lines)

\* a path's non-empty set was replaced by an empty request while the other path keeps its set
C8_Witness ==
    /\ \E k1, k2 \in SetBpResponses :
          /\ k1 < k2
          /\ RequestOf(k1).args.path = Program /\ RequestOf(k2).args.path = Program
          /\ responses[k1].body # <<>> /\ responses[k2].body = <<>>
    /\ LastSetFor(OtherPath) # 0
    /\ breakPoints[Program] = <<>>
    /\ breakPoints[OtherPath] # <<>>

\* the command that sets a breakpoint at a line of a file
BreakAt(file, line) == "break " \o file \o ":" \o ToString(line) \o "\n"

\* C15: once a setBreakpoints request is answered, the commands written for it are one
\* break command per requested line, in request order, each naming the file of the
\* request's path (the path or its base name) and the breakpoint's adjusted line.
C15_OneBreakCommandPerLine ==
    \A k \in SetBpResponses :
        /\ Len(written) = Len(RequestOf(k).args.lines)
        /\ \A i \in 1..Len(written) :
              written[i] \in {BreakAt(RequestOf(k).args.path, responses[k].body[i].line),
                              BreakAt(basename(RequestOf(k).args.path),
                                      responses[k].body[i].line)}

\* the identifiers of the breakpoints of the setBreakpoints responses 1..k, in the
\* order the breakpoints were created
RECURSIVE CreatedIds(_)
CreatedIds(k) ==
    IF k = 0 THEN <<>>
    ELSE IF responses[k].command = "setBreakpoints"
    THEN CreatedIds(k - 1) \o [i \in 1..Len(responses[k].body) |-> responses[k].body[i].id]
    ELSE CreatedIds(k - 1)

\* C14: the identifiers of all breakpoints returned so far, replaced sets included, are
\* strictly increasing in creation order, start at 1000 and lie below the counter.
C14_BreakpointIdsStrictlyIncreasing ==
    LET ids == CreatedIds(Len(responses))
    IN  /\ \A a, b \in 1..Len(ids) : a < b => ids[a] < ids[b]
        /\ \A a \in 1..Len(ids) : 1000 <= ids[a] /\ ids[a] < breakpointId
        /\ \A p \in DOMAIN breakPoints : \A i \in 1..Len(breakPoints[p]) :
              \E a \in 1..Len(ids) : ids[a] = breakPoints[p][i].id

\* a set of one breakpoint for a path was replaced by a set of two, and a set for the
\* other path was stored: four breakpoints, four identifiers
C14_Witness ==
    /\ Len(CreatedIds(Len(responses))) = 4
    /\ Program \in DOMAIN breakPoints /\ Len(breakPoints[Program]) = 2
    /\ OtherPath \in DOMAIN breakPoints /\ Len(breakPoints[OtherPath]) = 1

-----------------------------------------------------------------------------
(* Properties of the request handlers that write a backend command.         *)

RequestsOf(command) == {i \in 1..Len(requests) : requests[i].command = command}

Answered(i) == \E k \in 1..Len(responses) : responses[k].request_seq = i

Writes(command) == {j \in 1..Len(written) : written[j] = command}

\* C4: in every state, every disconnect request handled so far has written one
\* `quit` command and has been answered; no disconnect response without its `quit`.
C4_DisconnectWritesQuitThenResponds ==
    /\ \A i \in RequestsOf("disconnect") : Answered(i)
    /\ Cardinality(Writes("quit\n")) = Cardinality(RequestsOf("disconnect"))

\* the latest request of a kind, 0 when there is none
LatestRequest(command) ==
    IF RequestsOf(command) = {} THEN 0 ELSE Max(RequestsOf(command))

\* the step handles a new request with this command
Handles(command) ==
    /\ Len(requests') = Len(requests) + 1
    /\ requests'[Len(requests')].command = command

\* the step writes this command to the socket
WritesNow(command) ==
    /\ Len(written') = Len(written) + 1
    /\ written'[Len(written')] = command

\* C10: a stackTrace (variables) request leaves its own waiter registered and pending
\* whether or not its write succeeds, so registration does not wait for the write;
\* every step that writes `where` (`var local`) ends with the waiter of the request
\* that wrote it pending; and as long as that request is the latest of its kind, the
\* registered waiter is its own, so a reply document can only find that waiter.
C10_WaiterRegisteredBeforeCommand ==
    /\ [][ /\ Handles("stackTrace") => stackFrameLoaded' = NewPromise(Len(requests'))
           /\ Handles("variables") => variableLoaded' = NewPromise(Len(requests'))
           /\ WritesNow("where\n")
                 => Handles("stackTrace") /\ stackFrameLoaded' = NewPromise(Len(requests'))
           /\ WritesNow("var local\n")
                 => Handles("variables") /\ variableLoaded' = NewPromise(Len(requests'))
         ]_vars
    /\ [](/\ (LatestRequest("stackTrace") \notin ThrownInHandler \cup {0})
                => stackFrameLoaded.waiter = LatestRequest("stackTrace")
          /\ (LatestRequest("variables") \notin ThrownInHandler \cup {0})
                => variableLoaded.waiter = LatestRequest("variables"))

\* a frames reply and a variables reply each found the waiter of the request that asked
C10_Witness ==
    /\ \E k \in 1..Len(responses) :
          /\ responses[k].command = "stackTrace"
          /\ responses[k].request_seq = LatestRequest("stackTrace")
    /\ \E k \in 1..Len(responses) :
          /\ responses[k].command = "variables"
          /\ responses[k].request_seq = LatestRequest("variables")
    /\ Writes("where\n") # {} /\ Writes("var local\n") # {}

\* the responses sent to request i
ResponsesTo(i) == {k \in 1..Len(responses) : responses[k].request_seq = i}

\* the connect callback of the socket has run
HasConnected == \E e \in 1..Len(events) : events[e] = InitializedEvent

\* C18: a launch request has no response before the socket connected, and exactly one
\* from then on, whatever stopOnEntry is.
C18_OneLaunchResponseAfterConnect ==
    \A i \in RequestsOf("launch") :
        Cardinality(ResponsesTo(i)) = IF HasConnected THEN 1 ELSE 0

\* the request command that waits for documents of a kind
CommandOf(kind) == IF kind = "frames" THEN "stackTrace" ELSE "variables"

\* the deliveries of documents of a kind, as indices of delivered
DeliveriesOf(kind) == {j \in 1..Len(delivered) : delivered[j].kind = kind}

\* the number of requests dispatched before the delivery of that kind preceding j
SeenBefore(kind, j) ==
    LET earlier == {i \in DeliveriesOf(kind) : i < j}
    IN  IF earlier = {} THEN 0 ELSE delivered[Max(earlier)].seen

\* the request delivery j of a kind may answer: the latest request of the kind dispatched
\* before it, unless a document of the kind was already completed after that request
CandidateOf(kind, j) ==
    LET before == {i \in RequestsOf(CommandOf(kind)) : i <= delivered[j].seen}
    IN  IF before # {} /\ Max(before) > SeenBefore(kind, j) THEN Max(before) ELSE 0

\* the request_seq of the responses with a command, in the order sent
RECURSIVE AnsweredSeqs(_, _)
AnsweredSeqs(command, k) ==
    IF k = 0 THEN <<>>
    ELSE IF responses[k].command = command
    THEN Append(AnsweredSeqs(command, k - 1), responses[k].request_seq)
    ELSE AnsweredSeqs(command, k - 1)

\* C11: per kind, the responses sent answer strictly later and later requests (so no
\* request twice), each the latest request of the kind at the completion of some document
\* of the kind with no document of the kind completed since that request; there are no
\* more responses than documents; and the step that dispatches a request of the kind
\* sends no response of the kind.
C11_OneWaiterPerKind ==
    /\ [](\A kind \in {"frames", "variables"} :
             LET answered == AnsweredSeqs(CommandOf(kind), Len(responses))
             IN  /\ \A a, b \in 1..Len(answered) : a < b => answered[a] < answered[b]
                 /\ \A a \in 1..Len(answered) :
                       \E j \in DeliveriesOf(kind) : answered[a] = CandidateOf(kind, j)
                 /\ Len(answered) <= Cardinality(DeliveriesOf(kind)))
    /\ [][\A kind \in {"frames", "variables"} :
             Handles(CommandOf(kind))
                => AnsweredSeqs(CommandOf(kind), Len(responses))'
                       = AnsweredSeqs(CommandOf(kind), Len(responses))]_vars

\* two stackTrace requests were registered before a frames document completed: only the
\* second was answered
C11_Witness ==
    /\ Cardinality(RequestsOf("stackTrace")) = 2
    /\ \E j \in DeliveriesOf("frames") : delivered[j].seen = Len(requests)
    /\ AnsweredSeqs("stackTrace", Len(responses)) = <<LatestRequest("stackTrace")>>

-----------------------------------------------------------------------------
(* Reassembly: the backend writes documents, the socket delivers their text *)
(* in chunks cut at arbitrary positions.                                    *)

\* documents one chunk may carry
MaxDocs == 2

OneFrameDoc == FramesDoc(<<[file |-> Program, line |-> 1]>>)
OneVariableDoc == VariablesDoc(<<[name |-> "a", value |-> "1"]>>)

DocTexts == {OneFrameDoc, OneVariableDoc}

RECURSIVE Fragmentations(_, _)
\* the ways to cut text into 1..n non-empty chunks
Fragmentations(text, n) ==
    IF n <= 1 THEN {<<text>>}
    ELSE {<<text>>} \cup
         UNION {{<<SubSeq(text, 1, i)>> \o rest :
                    rest \in Fragmentations(SubSeq(text, i + 1, Len(text)), n - 1)} :
                i \in 1..(Len(text) - 1)}

\* one document in up to MaxChunks chunks, or several documents in one chunk
ReassemblyStreams ==
    UNION {{[sent |-> <<d>>, chunks |-> c] : c \in Fragmentations(d, MaxChunks)} :
              d \in DocTexts}
        \cup {[sent |-> ds, chunks |-> <<Concat(ds)>>] : ds \in SeqsOf(DocTexts, 2, MaxDocs)}

InitReassembly ==
    /\ InitSession
    /\ files = [p \in Paths |-> TwoLineFile]
    /\ stderrIncoming = <<ReadyLine>>
    /\ \E stream \in ReassemblyStreams : sent = stream.sent /\ incoming = stream.chunks

NextReassembly ==
    \/ LaunchRequest(Program, FALSE)
    \/ StderrData
    \/ SocketConnect
    \/ SocketData

SpecReassembly == InitReassembly /\ [][NextReassembly]_vars

\* the kind a document text is of
KindOf(doc) == IF StartsWith(doc, "<frames>") THEN "frames" ELSE "variables"

\* C1: whatever the cuts, a single document is completed exactly once, with its whole
\* text: never with another text, never twice, and once all its chunks are consumed.
C1_FragmentedDocumentCompletesOnce ==
    Len(sent) = 1 =>
        /\ Len(delivered) <= 1
        /\ \A j \in 1..Len(delivered) :
              delivered[j].kind = KindOf(sent[1]) /\ delivered[j].text = sent[1]
        /\ (debugSocketServer = "connected" /\ incoming = <<>>) => Len(delivered) = 1

\* C2: the documents of one chunk are completed one by one, each once, in order.
C2_ConcatenatedDocumentsCompleteSeparately ==
    (Len(sent) >= 2 /\ debugSocketServer = "connected" /\ incoming = <<>>) =>
        /\ Len(delivered) = Len(sent)
        /\ \A j \in 1..Len(sent) :
              delivered[j].kind = KindOf(sent[j]) /\ delivered[j].text = sent[j]

-----------------------------------------------------------------------------
(* Events between the chunks of documents: every backend write arrives as   *)
(* one chunk; a stream mixes event chunks with the chunks of documents.     *)

BreakpointHit == "<breakpoint file=\"" \o Program \o "\" line=\"1\" threadId=\"1\"/>"
SuspendedAt == "<suspended file=\"" \o Program \o "\" line=\"2\" threadId=\"1\" frames=\"1\"/>"

EventChunks == {BreakpointHit, SuspendedAt}

DocumentChunks == {"<frames>", FrameTag(Program, 1), "</frames>",
                   "<variables>", VariableTag("a", "1"), "</variables>"}

InitEvents ==
    /\ InitSession
    /\ files = [p \in Paths |-> TwoLineFile]
    /\ stderrIncoming = <<ReadyLine>>
    /\ sent \in SeqsOf(EventChunks \cup DocumentChunks, 1, MaxStream)
    /\ incoming = sent

SpecEvents == InitEvents /\ [][NextReassembly]_vars

\* the reason of the StoppedEvent an event chunk stands for
ReasonOf(chunk) == IF chunk = BreakpointHit THEN "breakpoint" ELSE "step"

\* the step delivers the next chunk to the data callback
DeliversChunk == incoming # <<>> /\ incoming' = Tail(incoming)

\* C3: the step that delivers an event chunk sends its StoppedEvent (reason breakpoint
\* or step) and leaves the buffer and the completed documents alone; and the text of
\* an event chunk is never in the buffer nor in a document parsed from it.
C3_EventsDispatchedNeverBuffered ==
    /\ [][(DeliversChunk /\ Head(incoming) \in EventChunks)
             => /\ events' = Append(events, StoppedEvent(ReasonOf(Head(incoming))))
                /\ buffer' = buffer
                /\ delivered' = delivered]_vars
    /\ [](\A e \in EventChunks :
              /\ ~Contains(buffer, e)
              /\ \A j \in 1..Len(delivered) : ~Contains(delivered[j].text, e))

\* a breakpoint hit arrived between the chunks of a frames document: it was sent as a
\* StoppedEvent and the document parsed afterwards is the document without it
C3_Witness ==
    /\ sent = <<"<frames>", BreakpointHit, FrameTag(Program, 1), "</frames>">>
    /\ incoming = <<>>
    /\ \E j \in 1..Len(events) : events[j] = StoppedEvent("breakpoint")
    /\ Len(delivered) = 1
    /\ delivered[1].kind = "frames" /\ delivered[1].text = OneFrameDoc

-----------------------------------------------------------------------------
(* Stack-frame translation: one stackTrace request and one frames document  *)
(* of every shape, delivered whole.                                         *)

UserFrame1 == [file |-> Program, line |-> 1]
UserFrame2 == [file |-> Program, line |-> 2]
\* a frame of another file, beyond the last line of the cached program source
LibraryFrame == [file |-> OtherPath, line |-> 7]
IdeFrame == [file |-> "/gems/ruby-debug-ide/lib/ruby-debug-ide.rb", line |-> 74]
LauncherFrame == [file |-> "/usr/bin/rdebug-ide", line |-> 40]

FramePool == {UserFrame1, UserFrame2, LibraryFrame, IdeFrame, LauncherFrame}

InitFrames ==
    /\ InitSession
    /\ files = [p \in Paths |-> TwoLineFile]
    /\ stderrIncoming = <<ReadyLine>>
    /\ \E frames \in SeqsOf(FramePool, 0, MaxFrames) : sent = <<FramesDoc(frames)>>
    /\ incoming = sent

NextFrames ==
    \/ LaunchRequest(Program, FALSE)
    \/ StderrData
    \/ SocketConnect
    \/ RequestsOf("stackTrace") = {} /\ StackTraceRequest
    \/ SocketData

SpecFrames == InitFrames /\ [][NextFrames]_vars

\* the frame elements of a frames document text, in document order
FrameElements(text) == parseFromString(text).documentElement.childNodes

\* the number of frame elements before the first one of a backend-internal script
UserPrefix(elements) ==
    LET internal == {i \in 1..Len(elements) :
                        basename(elements[i].attributes["file"]) \in InternalScripts}
    IN  IF internal = {} THEN Len(elements) ELSE Min(internal) - 1

\* C9: every stackTrace response holds exactly the frames before the first frame whose
\* file base name is ruby-debug-ide.rb or rdebug-ide, in document order, each at its
\* line with the trimmed source line as its name; that frame and all after it are left out.
C9_FramesStopAtFirstInternal ==
    \A k \in 1..Len(responses) :
        responses[k].command = "stackTrace" =>
            LET elements == FrameElements(sent[1])
            IN  responses[k].body =
                    [i \in 1..UserPrefix(elements) |->
                        LET line == ToNumber(elements[i].attributes["line"])
                        IN  StackFrame(i - 1, Trim(sourceLines[line]), basename(sourceFile),
                                       line, 0)]

\* the frames of user.rb, user.rb, ruby-debug-ide.rb were answered with two frames
C9_Witness ==
    /\ sent = <<FramesDoc(<<UserFrame2, UserFrame1, IdeFrame>>)>>
    /\ \E k \in 1..Len(responses) :
          responses[k].command = "stackTrace" /\ Len(responses[k].body) = 2

-----------------------------------------------------------------------------
(* The supervisor: the backend process and the socket with every callback   *)
(* launchRequest registers on them.                                         *)

\* stdout chunks of the program, and idle timeouts of the socket
MaxOutputs == 1

ProgramOutput == "hello\n"

\* what the backend process prints on stderr: nothing, the readiness line, a warning
\* before it, the readiness line twice
StderrStreams == {<<>>, <<ReadyLine>>, <<OtherLine, ReadyLine>>, <<ReadyLine, ReadyLine>>}

InitSupervisor ==
    /\ InitSession
    /\ files = [p \in Paths |-> TwoLineFile]
    /\ stderrIncoming \in StderrStreams
    /\ sent = <<>>
    /\ incoming = <<>>

NextSupervisor ==
    \/ \E stopOnEntry \in BOOLEAN : LaunchRequest(Program, stopOnEntry)
    \/ StderrData
    \/ StdoutData(ProgramOutput, MaxOutputs)
    \/ ProcessExit
    \/ ProcessError
    \/ SocketConnect
    \/ SocketClose
    \/ SocketError
    \/ SocketTimeout(MaxOutputs)

SpecSupervisor == InitSupervisor /\ [][NextSupervisor]_vars

\* the step hands a stderr chunk matching /^Fast Debugger/ to the stderr callback
ReadySignalNow ==
    /\ stderrIncoming # <<>>
    /\ stderrIncoming' = Tail(stderrIncoming)
    /\ StartsWith(Head(stderrIncoming), "Fast Debugger")

\* C12: connect is called only by a step that consumes a stderr chunk matching the
\* readiness pattern, the first such chunk does call it, and it is called at most once.
C12_OneConnectAtFirstReadySignal ==
    [][ /\ connects' # connects => ReadySignalNow
        /\ (ReadySignalNow /\ connects = 0) => connects' = 1
        /\ connects' <= 1 ]_vars

\* the TerminatedEvents of a sequence of events
Terminations(evs) == {i \in 1..Len(evs) : evs[i].event = "terminated"}

\* C13: the step of a process exit sends one TerminatedEvent and the step of a socket
\* close an OutputEvent and one TerminatedEvent; the steps of a spawn error, a socket
\* error and a socket timeout send one OutputEvent each; and no step other than an
\* exit or a close adds a TerminatedEvent.
C13_TerminatedOnlyOnExitAndClose ==
    [][ LET exit == debugprocess # "exited" /\ debugprocess' = "exited"
            close == debugSocketServer # "closed" /\ debugSocketServer' = "closed"
            spawnError == debugprocess # "failed" /\ debugprocess' = "failed"
            socketError == debugSocketServer # "errored" /\ debugSocketServer' = "errored"
            timeout == OutputsOf(events', TimeoutMessage \o "\n")
                           # OutputsOf(events, TimeoutMessage \o "\n")
        IN  /\ exit => events' = Append(events, TerminatedEvent)
            /\ close => events' = events \o <<OutputEvent(ClosedMessage, "console"),
                                              TerminatedEvent>>
            /\ spawnError => events' = Append(events, OutputEvent(SpawnErrorMessage, "stderr"))
            /\ socketError => events' = Append(events, OutputEvent(ErrorMessage, "console"))
            /\ timeout => events' = Append(events, OutputEvent(TimeoutMessage \o "\n", "stderr"))
            /\ Terminations(events') # Terminations(events) => (exit \/ close)
      ]_vars

\* a spawn error, a socket error, a socket timeout, a socket close and nothing else
\* that terminates: one TerminatedEvent, the close's
C13_Witness ==
    /\ debugprocess = "failed"
    /\ debugSocketServer = "closed"
    /\ OutputsOf(events, ErrorMessage) # {}
    /\ OutputsOf(events, TimeoutMessage \o "\n") # {}
    /\ Cardinality(Terminations(events)) = 1

-----------------------------------------------------------------------------
(* Chunk streams: variables and breakpoints documents in chunks of every    *)
(* order, with the chunks of nested variables.                              *)

\* the open tag of a variable with children, as a chunk of its own
OpenVariable == "<variable name=\"h\" value=\"Hash\">"

ChunkAlphabet == {"<variables>", VariableTag("a", "1"), OpenVariable, "</variable>",
                  "</variables>", "<breakpoints>", BreakpointHit, "</breakpoints>"}

InitChunks ==
    /\ InitSession
    /\ files = [p \in Paths |-> TwoLineFile]
    /\ stderrIncoming = <<ReadyLine>>
    /\ sent \in SeqsOf(ChunkAlphabet, 1, MaxStream)
    /\ incoming = sent

SpecChunks == InitChunks /\ [][NextReassembly]_vars

\* the chunks consumed by the data callback so far
Consumed == SubSeq(sent, 1, Len(sent) - Len(incoming))

\* a chunk that opens a document of known root kind
Opens(chunk) ==
    \/ StartsWith(chunk, "<frames>")
    \/ StartsWith(chunk, "<variables>")
    \/ StartsWith(chunk, "<breakpoints>")

\* a chunk that completes a document
Completes(chunk) ==
    \/ EndsWith(chunk, "</frames>")
    \/ EndsWith(chunk, "</variables>")
    \/ EndsWith(chunk, "</breakpoints>")

\* a document was opened by a consumed chunk and no completing chunk was consumed since
DocumentOpen ==
    \E i \in 1..Len(Consumed) :
        /\ Opens(Consumed[i])
        /\ \A j \in i..Len(Consumed) : ~Completes(Consumed[j])

\* C16: the buffer is non-empty only while a document of known root kind is open; a
\* chunk that opens no document leaves an empty buffer empty; and the buffer is empty
\* after every completing chunk.
C16_BufferEmptyUnlessDocumentOpen ==
    /\ [](buffer # "" => DocumentOpen)
    /\ [][ /\ (DeliversChunk /\ buffer = "" /\ ~Opens(Head(incoming))) => buffer' = ""
           /\ (DeliversChunk /\ Completes(Head(incoming))) => buffer' = "" ]_vars

\* C19: while a breakpoints document is being accumulated, the step that delivers a
\* <breakpoint .../> chunk appends it to the buffer and sends no event; so every
\* StoppedEvent with reason breakpoint is sent with the buffer empty.
C19_BreakpointChunkInsideDocumentAppended ==
    [][ (DeliversChunk /\ SelfClosedTag(Head(incoming), "breakpoint")
            /\ StartsWith(buffer, "<breakpoints>"))
          => (buffer' = buffer \o Head(incoming) /\ events' = events) ]_vars

-----------------------------------------------------------------------------
(* Dispatch: the chunks of a frames and a variables document, interleaved in *)
(* every way, with stackTrace and variables requests waiting for them.      *)

\* the ways to merge two chunk sequences, each keeping its own order
RECURSIVE Interleavings(_, _)
Interleavings(a, b) ==
    IF a = <<>> THEN {b}
    ELSE IF b = <<>> THEN {a}
    ELSE {<<Head(a)>> \o rest : rest \in Interleavings(Tail(a), b)}
            \cup {<<Head(b)>> \o rest : rest \in Interleavings(a, Tail(b))}

\* a frames document and a variables document, each in three chunks
FramesChunks == <<"<frames>", FrameTag(Program, 1), "</frames>">>
VariablesChunks == <<"<variables>", VariableTag("a", "1"), "</variables>">>

InitDispatch ==
    /\ InitSession
    /\ files = [p \in Paths |-> TwoLineFile]
    /\ stderrIncoming = <<ReadyLine>>
    /\ sent \in Interleavings(FramesChunks, VariablesChunks)
    /\ incoming = sent

NextDispatch ==
    \/ LaunchRequest(Program, FALSE)
    \/ StderrData
    \/ SocketConnect
    \/ SocketData
    \/ FrontendSends(MaxReq) /\ StackTraceRequest
    \/ FrontendSends(MaxReq) /\ \E variablesReference \in {1001} :
                                   VariablesRequest(variablesReference)

SpecDispatch == InitDispatch /\ [][NextDispatch]_vars

\* the root tag name of a text: the name of its first start tag, which is the
\* documentElement of a well-formed document, and the element a parser that recovers
\* from a missing or mismatched end tag builds first
RootOf(text) ==
    LET ends == {i \in 2..Len(text) : CharAt(text, i) \in {">", " ", "/"}}
    IN  IF ~StartsWith(text, "<") \/ ends = {} THEN "#text"
        ELSE SubSeq(text, 2, Min(ends) - 1)

\* C17: every document handed to the waiter of a request is of the waiter's kind: the
\* root of a document resolved for a stackTrace request is frames, and the root of a
\* document resolved for a variables request is variables.
C17_DispatchByRootTag ==
    \A j \in 1..Len(delivered) :
        CandidateOf(delivered[j].kind, j) # 0 => RootOf(delivered[j].text) = delivered[j].kind

-----------------------------------------------------------------------------
(* The requests answered by their own handler, sent at any time of the      *)
(* session.                                                                 *)

InitRequests ==
    /\ InitSession
    /\ files = [p \in Paths |-> TwoLineFile]
    /\ stderrIncoming = <<ReadyLine>>
    /\ sent = <<>>
    /\ incoming = <<>>

NextRequests ==
    \/ FrontendSends(MaxReq) /\ LaunchRequest(Program, FALSE)
    \/ StderrData
    \/ SocketConnect
    \/ FrontendSends(MaxReq) /\ InitializeRequest
    \/ FrontendSends(MaxReq) /\ \E clientLines \in {<<1>>} :
                                   SetBreakPointsRequest(Program, clientLines)
    \/ FrontendSends(MaxReq) /\ ConfigurationDoneRequest
    \/ FrontendSends(MaxReq) /\ ThreadsRequest
    \/ FrontendSends(MaxReq) /\ \E frameId \in {0} : ScopesRequest(frameId)
    \/ FrontendSends(MaxReq) /\ ContinueRequest
    \/ FrontendSends(MaxReq) /\ NextRequest
    \/ FrontendSends(MaxReq) /\ StepInRequest
    \/ FrontendSends(MaxReq) /\ StepOutRequest
    \/ FrontendSends(MaxReq) /\ \E expression \in {"a"} : EvaluateRequest(expression)
    \/ FrontendSends(MaxReq) /\ DisconnectRequest

SpecRequests == InitRequests /\ [][NextRequests]_vars

\* the requests whose handler does not wait for a backend document
AnsweredByHandler == {"initialize", "setBreakpoints", "configurationDone", "threads",
                      "scopes", "continue", "next", "stepIn", "stepOut", "evaluate",
                      "disconnect"}

\* C20: every request handled so far whose handler waits for no document has exactly
\* one response, of its own command; and there is one `start` command written per
\* configurationDone request.
C20_HandlerAcknowledgesRequest ==
    /\ \A i \in 1..Len(requests) :
          requests[i].command \in AnsweredByHandler =>
              /\ Cardinality(ResponsesTo(i)) = 1
              /\ \A k \in ResponsesTo(i) : responses[k].command = requests[i].command
    /\ Cardinality(Writes("start\n")) = Cardinality(RequestsOf("configurationDone"))

====
